---- MODULE Spec2Model ----
(***************************************************************************)
(* MEL (Message Exercise List) versioning and merge logic of the chat      *)
(* route (src/src/app/api/chat/route.backup.ts): the document builder,     *)
(* the replace and merge operations, and the POST and PUT handlers working *)
(* on the in-memory session map.                                           *)
(*                                                                         *)
(* Two specifications share the module:                                    *)
(*   Spec       the handlers acting on one session (POST is two steps,     *)
(*              split at its await of the upstream call);                  *)
(*   SpecMerge  createMelVersion / updateMelVersion / mergeMelUpdates      *)
(*              applied as pure functions to bounded inputs.               *)
(***************************************************************************)
EXTENDS Integers, Sequences, FiniteSets, TLC

VARIABLES sessions, inflight, lastCall, now, nextUuid,
          fnPrev, fnIn, fnOut, fnOp,
          saved, savedCall, ui

vars == <<sessions, inflight, lastCall, now, nextUuid, fnPrev, fnIn, fnOut, fnOp,
          saved, savedCall, ui>>

sessVars == <<sessions, inflight, lastCall>>

fnVars == <<fnPrev, fnIn, fnOut, fnOp>>

\* the map of the sessions endpoint with the log of its last request, and
\* the state of the ChatUI component
sideVars == <<saved, savedCall, ui>>

(***************************************************************************)
(* Bounds of the model.                                                    *)
(***************************************************************************)
\* longest inject list a request or an upstream response carries (Spec)
MaxBatch == 2

\* longest inject list handed to the builder (SpecMerge)
MaxDocLen == 3

\* longest incoming list handed to merge / replace (SpecMerge)
MaxIncoming == 2

\* accepted changes per session (length of melHistory)
MaxHistory == 2

\* chat turns awaiting the upstream call at the same time (Spec)
MaxInflight == 1

\* chat turns awaiting the upstream call at the same time (SpecRace)
MaxRacing == 2

\* last value of the wall clock
MaxTime == 1

\* operations applied in a row in SpecMerge
MaxOps == 1

\* operations applied in a row in SpecChain
MaxChain == 2

(***************************************************************************)
(* Values.  An optional field that is absent (undefined) is modelled by a  *)
(* value outside the range of the present ones.                            *)
(***************************************************************************)
\* Inject.id / Inject.melId absent; randomUUID() values are 1, 2, 3, ...
NoId == 0

\* Inject.originalIndex absent
NoIndex == -1

\* Inject.lastModified absent
NoTime == -1

\* currentMel absent (null / undefined)
NoMel ==
  [melId |-> NoId, version |-> 0, timestamp |-> NoTime, injects |-> <<>>,
   totalInjects |-> 0, events |-> <<>>]

\* no entry under a session identifier in the sessions map
NoSession == [exists |-> FALSE]

SessionIds == {"s1"}

Numbers == {1, 2}

Serials == {"A", "B"}

Messages == {"m1", "m2"}

\* identifiers a caller put on injects itself (never the value of a later
\* randomUUID())
CallerIds == {101}

\* the n-th value returned by randomUUID(): fresh, never equal to NoId
Uuid(n) == n

(***************************************************************************)
(* Sequences helpers.                                                      *)
(***************************************************************************)
SeqsUpTo(S, n) == UNION {[1..k -> S] : k \in 0..n}

Range(s) == {s[i] : i \in 1..Len(s)}

\* Array.prototype.findIndex: first position satisfying the test, 0 if none
\* (JavaScript's -1)
FindIndex(s, Test(_)) ==
  IF \E i \in 1..Len(s) : Test(s[i])
  THEN CHOOSE i \in 1..Len(s) : Test(s[i]) /\ \A j \in 1..(i-1) : ~Test(s[j])
  ELSE 0

(***************************************************************************)
(* Inject: the author fields are represented by Number, Serial and         *)
(* Message (Time, From, Faction, To, Team, Method, On, Subject are copied  *)
(* by the same object spreads as Message and never read by the code).      *)
(***************************************************************************)
Inject(id, melId, number, serial, message, originalIndex, lastModified) ==
  [id |-> id, melId |-> melId, Number |-> number, Serial |-> serial,
   Message |-> message, originalIndex |-> originalIndex,
   lastModified |-> lastModified]

\* an inject as the language model writes it: author fields only
AuthorInject(number, serial, message) ==
  Inject(NoId, NoId, number, serial, message, NoIndex, NoTime)

(***************************************************************************)
(* extractEventsFromInjects: one event per distinct Serial, in first-seen  *)
(* order (Map insertion order), each with a fresh id.                      *)
(***************************************************************************)
\* positions at which a Serial occurs for the first time
FirstSeenAll(injects) == 1..Len(injects)

FirstSeen(injects) ==
  {i \in 1..Len(injects) : \A j \in 1..(i-1) : injects[j].Serial # injects[i].Serial}

\* the k-th smallest element of a finite set of integers
RECURSIVE KthSmallest(_, _)
KthSmallest(S, k) ==
  LET m == CHOOSE x \in S : \A y \in S : x <= y
  IN IF k = 1 THEN m ELSE KthSmallest(S \ {m}, k - 1)

EventCountAfterFirst(injects, name) ==
  Cardinality({j \in 1..Len(injects) : injects[j].Serial = name}) - 1

EventCount(injects, name) ==
  Cardinality({j \in 1..Len(injects) : injects[j].Serial = name})

extractEventsFromInjectsFirstOnly(injects, base) ==
  LET firsts == FirstSeen(injects)
  IN [k \in 1..(IF firsts = {} THEN 0 ELSE 1) |->
        LET name == injects[KthSmallest(firsts, k)].Serial
        IN [id |-> Uuid(base + k - 1), name |-> name,
            injectCount |-> EventCount(injects, name)]]

extractEventsFromInjects(injects, base) ==
  LET firsts == FirstSeen(injects)
  IN [k \in 1..Cardinality(firsts) |->
        LET name == injects[KthSmallest(firsts, k)].Serial
        IN [id |-> Uuid(base + k - 1), name |-> name,
            injectCount |-> EventCount(injects, name)]]

\* randomUUID() calls made by extractEventsFromInjects
EventUuids(injects) == Cardinality(FirstSeen(injects))

(***************************************************************************)
(* createMelVersion(injects, melId?)                                       *)
(***************************************************************************)
\* injects before position i that lack an id: each costs one randomUUID()
MissingIdsBefore(injects, i) ==
  Cardinality({j \in 1..(i-1) : injects[j].id = NoId})

createMelVersionNoEvents(injects, melId, base, timestamp) ==
  LET currentMelId == IF melId # NoId THEN melId ELSE Uuid(base)
      b1 == IF melId # NoId THEN base ELSE base + 1
      injectsWithIds ==
        [i \in 1..Len(injects) |->
           [injects[i] EXCEPT
              !.id = IF injects[i].id # NoId THEN injects[i].id
                     ELSE Uuid(b1 + MissingIdsBefore(injects, i)),
              !.melId = currentMelId,
              !.originalIndex = i - 1,
              !.lastModified = timestamp]]
  IN [melId |-> currentMelId,
      version |-> 1,
      timestamp |-> timestamp,
      injects |-> injectsWithIds,
      totalInjects |-> Len(injectsWithIds),
      events |-> <<>>]

createMelVersion(injects, melId, base, timestamp) ==
  LET currentMelId == IF melId # NoId THEN melId ELSE Uuid(base)
      b1 == IF melId # NoId THEN base ELSE base + 1
      injectsWithIds ==
        [i \in 1..Len(injects) |->
           [injects[i] EXCEPT
              !.id = IF injects[i].id # NoId THEN injects[i].id
                     ELSE Uuid(b1 + MissingIdsBefore(injects, i)),
              !.melId = currentMelId,
              !.originalIndex = i - 1,
              !.lastModified = timestamp]]
      b2 == b1 + MissingIdsBefore(injects, Len(injects) + 1)
  IN [melId |-> currentMelId,
      version |-> 1,
      timestamp |-> timestamp,
      injects |-> injectsWithIds,
      totalInjects |-> Len(injectsWithIds),
      events |-> extractEventsFromInjects(injectsWithIds, b2)]

\* randomUUID() calls made by createMelVersion
CreateUuids(injects, melId) ==
  (IF melId # NoId THEN 0 ELSE 1)
  + MissingIdsBefore(injects, Len(injects) + 1) + EventUuids(injects)

(***************************************************************************)
(* updateMelVersion(currentMel, updatedInjects)                            *)
(***************************************************************************)
updateMelVersionNoBump(currentMel, updatedInjects, base, timestamp) ==
  [currentMel EXCEPT
     !.timestamp = timestamp,
     !.injects = [i \in 1..Len(updatedInjects) |->
                    [updatedInjects[i] EXCEPT !.lastModified = timestamp]],
     !.totalInjects = Len(updatedInjects),
     !.events = extractEventsFromInjects(updatedInjects, base)]

updateMelVersionKeepCount(currentMel, updatedInjects, base, timestamp) ==
  [currentMel EXCEPT
     !.version = currentMel.version + 1,
     !.timestamp = timestamp,
     !.injects = [i \in 1..Len(updatedInjects) |->
                    [updatedInjects[i] EXCEPT !.lastModified = timestamp]],
     !.events = extractEventsFromInjects(updatedInjects, base)]

updateMelVersion(currentMel, updatedInjects, base, timestamp) ==
  [currentMel EXCEPT
     !.version = currentMel.version + 1,
     !.timestamp = timestamp,
     !.injects = [i \in 1..Len(updatedInjects) |->
                    [updatedInjects[i] EXCEPT !.lastModified = timestamp]],
     !.totalInjects = Len(updatedInjects),
     !.events = extractEventsFromInjects(updatedInjects, base)]

UpdateUuids(updatedInjects) == EventUuids(updatedInjects)

(***************************************************************************)
(* mergeMelUpdates(currentMel, updatedInjects)                             *)
(***************************************************************************)
\* the test of the findIndex call of the partial merge
MatchesBySerial(existing, updatedInject) ==
  \/ existing.id = updatedInject.id
  \/ existing.Serial = updatedInject.Serial

MatchesByIdOnly(existing, updatedInject) ==
  existing.id = updatedInject.id

Matches(existing, updatedInject) ==
  \/ existing.id = updatedInject.id
  \/ existing.Number = updatedInject.Number

\* the entry written over a matched one
MergedEntryKeepIncomingId(existing, updatedInject, melId, timestamp) ==
  [updatedInject EXCEPT !.melId = melId, !.lastModified = timestamp]

MergedEntry(existing, updatedInject, melId, timestamp) ==
  [updatedInject EXCEPT !.id = existing.id, !.melId = melId,
                        !.lastModified = timestamp]

\* the entry pushed for an incoming inject that matched nothing
AppendedEntryKeepMelId(updatedInject, melId, base, timestamp) ==
  [updatedInject EXCEPT
     !.id = IF updatedInject.id # NoId THEN updatedInject.id ELSE Uuid(base),
     !.lastModified = timestamp]

AppendedEntry(updatedInject, melId, base, timestamp) ==
  [updatedInject EXCEPT
     !.id = IF updatedInject.id # NoId THEN updatedInject.id ELSE Uuid(base),
     !.melId = melId,
     !.lastModified = timestamp]

\* the forEach over updatedInjects, from position i on; the result is the
\* merged list and the next unused uuid
RECURSIVE MergeLoop(_, _, _, _, _, _)
MergeLoop(mergedInjects, updatedInjects, i, melId, base, timestamp) ==
  IF i > Len(updatedInjects)
  THEN [merged |-> mergedInjects, base |-> base]
  ELSE LET u == updatedInjects[i]
           Test(e) == Matches(e, u)
           existingIndex == FindIndex(mergedInjects, Test)
       IN IF existingIndex > 0
          THEN MergeLoop(
                 [mergedInjects EXCEPT
                    ![existingIndex] =
                      MergedEntry(mergedInjects[existingIndex], u, melId, timestamp)],
                 updatedInjects, i + 1, melId, base, timestamp)
          ELSE MergeLoop(
                 Append(mergedInjects, AppendedEntry(u, melId, base, timestamp)),
                 updatedInjects, i + 1, melId,
                 IF u.id # NoId THEN base ELSE base + 1, timestamp)

isPartialUpdateOrEqual(currentMel, updatedInjects) ==
  Len(updatedInjects) <= Len(currentMel.injects)

isPartialUpdateNonEmpty(currentMel, updatedInjects) ==
  Len(updatedInjects) > 0 /\ Len(updatedInjects) < Len(currentMel.injects)

isPartialUpdate(currentMel, updatedInjects) ==
  Len(updatedInjects) < Len(currentMel.injects)

mergeMelUpdates(currentMel, updatedInjects, base, timestamp) ==
  IF currentMel = NoMel
  THEN createMelVersion(updatedInjects, NoId, base, timestamp)
  ELSE IF isPartialUpdate(currentMel, updatedInjects)
       THEN LET r == MergeLoop(currentMel.injects, updatedInjects, 1,
                               currentMel.melId, base, timestamp)
            IN updateMelVersion(currentMel, r.merged, r.base, timestamp)
       ELSE updateMelVersion(currentMel, updatedInjects, base, timestamp)

\* randomUUID() calls made by mergeMelUpdates
MergeUuids(currentMel, updatedInjects, base, timestamp) ==
  IF currentMel = NoMel
  THEN CreateUuids(updatedInjects, NoId)
  ELSE IF isPartialUpdate(currentMel, updatedInjects)
       THEN LET r == MergeLoop(currentMel.injects, updatedInjects, 1,
                               currentMel.melId, base, timestamp)
            IN (r.base - base) + UpdateUuids(r.merged)
       ELSE UpdateUuids(updatedInjects)

(***************************************************************************)
(* SpecMerge: the builder, replace and merge as pure functions.  fnPrev is *)
(* the document an operation was applied to, fnIn its inject list, fnOut   *)
(* its result; the next operation is applied to fnOut.                     *)
(***************************************************************************)
\* inject lists handed to the builder: author fields, some already tagged
\* with an identifier by the caller
BuildInjects ==
  {Inject(NoId, NoId, n, s, "m1", NoIndex, NoTime) : n \in Numbers, s \in Serials}
  \cup {Inject(id, NoId, n, "A", "m1", NoIndex, NoTime) :
          id \in CallerIds, n \in Numbers}

\* incoming injects of a merge or replace on doc: written anew by the
\* author, with or without an identifier of the caller's, or carrying the
\* identifier of an entry of doc, any Number and a melId that is not the
\* document's
IncomingInjects(doc) ==
  {AuthorInject(n, "A", "m2") : n \in Numbers}
  \cup {Inject(id, NoId, n, "A", "m2", NoIndex, NoTime) :
          id \in CallerIds, n \in Numbers}
  \cup {[e EXCEPT !.Message = "m2", !.Number = n, !.melId = e.id] :
          e \in Range(doc.injects), n \in Numbers}

\* inject lists handed to merge or replace on doc: short lists of incoming
\* injects, or the document's own list fed back
IncomingLists(doc) ==
  SeqsUpTo(IncomingInjects(doc), MaxIncoming) \cup {doc.injects}

FnCreate(injects) ==
  /\ fnOp = "none"
  /\ fnPrev' = NoMel
  /\ fnIn' = injects
  /\ fnOut' = createMelVersion(injects, NoId, nextUuid, now)
  /\ nextUuid' = nextUuid + CreateUuids(injects, NoId)
  /\ fnOp' = "create"
  /\ UNCHANGED <<sessVars, sideVars, now>>

FnUpdate(injects) ==
  /\ fnOp # "none"
  /\ fnPrev' = fnOut
  /\ fnIn' = injects
  /\ fnOut' = updateMelVersion(fnOut, injects, nextUuid, now)
  /\ nextUuid' = nextUuid + UpdateUuids(injects)
  /\ fnOp' = "update"
  /\ UNCHANGED <<sessVars, sideVars, now>>

FnMerge(injects) ==
  /\ fnPrev' = fnOut
  /\ fnIn' = injects
  /\ fnOut' = mergeMelUpdates(fnOut, injects, nextUuid, now)
  /\ nextUuid' = nextUuid + MergeUuids(fnOut, injects, nextUuid, now)
  /\ fnOp' = "merge"
  /\ UNCHANGED <<sessVars, sideVars, now>>

(***************************************************************************)
(* The upstream chat-completion response and its interpretation.           *)
(***************************************************************************)
\* what JSON.parse yields for the JSON found in the free text, if any:
\* kind "none" (no match), "bad" (parse throws), "object" (parses to a
\* non-array) or "array" (val is the inject list)
Json(kind, val) == [kind |-> kind, val |-> val]

NoJson == Json("none", <<>>)

\* choices[0].message.parsed absent
NoParsed == [present |-> FALSE, action |-> "", isArray |-> FALSE, updatedInjects |-> <<>>]

\* extractJsonFromContent: null when nothing matches or the parse throws
extractJsonFromContentEmptyList(content) ==
  IF content.json.kind \in {"array", "object"} THEN content.json
  ELSE Json("array", <<>>)

extractJsonFromContent(content) ==
  IF content.json.kind \in {"array", "object"} THEN content.json ELSE NoJson

processResponsesApiOutputTextFirst(responseData) ==
  LET content == responseData.content
      fromText == IF content.text # "" THEN extractJsonFromContent(content) ELSE NoJson
      parsed == responseData.parsed
      useParsed == parsed.present /\ parsed.isArray /\ fromText.kind # "array"
  IN [content |-> content.text,
      extractedJson |-> IF useParsed THEN Json("array", parsed.updatedInjects) ELSE fromText,
      action |-> IF useParsed /\ parsed.action # "" THEN parsed.action ELSE "merge"]

processResponsesApiOutput(responseData) ==
  LET content == responseData.content
      fromText == IF content.text # "" THEN extractJsonFromContent(content) ELSE NoJson
      parsed == responseData.parsed
      useParsed == parsed.present /\ parsed.isArray
  IN [content |-> content.text,
      extractedJson |-> IF useParsed THEN Json("array", parsed.updatedInjects) ELSE fromText,
      action |-> IF useParsed /\ parsed.action # "" THEN parsed.action ELSE "merge"]

\* finalContent when the response has no text
DefaultContent == "Exercise data has been processed using Responses API."

(***************************************************************************)
(* Sessions.                                                               *)
(***************************************************************************)
Message(role, content) == [role |-> role, content |-> content]

\* an entry of session.melHistory: the document plus createdAt and source
HistoryEntry(mel, createdAt, source) ==
  [melId |-> mel.melId, version |-> mel.version, timestamp |-> mel.timestamp,
   injects |-> mel.injects, totalInjects |-> mel.totalInjects,
   events |-> mel.events, createdAt |-> createdAt, source |-> source]

\* session.melHistory.push(entry), on a history created empty when absent
PushHistoryLatestOnly(melHistory, entry) == <<entry>>

PushHistory(melHistory, entry) == Append(melHistory, entry)

\* the document held by a history entry
MelOf(entry) ==
  [melId |-> entry.melId, version |-> entry.version, timestamp |-> entry.timestamp,
   injects |-> entry.injects, totalInjects |-> entry.totalInjects,
   events |-> entry.events]

\* the session object POST creates when the map has none (no currentMel, no
\* melHistory; an absent melHistory and an empty one behave alike, line 425).
\* lastActivity and createdAt are written and never read by this route, and
\* are left out.
NewSession ==
  [exists |-> TRUE, messages |-> <<>>, currentMel |-> NoMel, melHistory |-> <<>>]

\* session.currentMel read through an optional session
CurrentMelOf(sid) ==
  IF sessions[sid] = NoSession THEN NoMel ELSE sessions[sid].currentMel

HistoryOf(sid) ==
  IF sessions[sid] = NoSession THEN <<>> ELSE sessions[sid].melHistory

MessagesOf(sid) ==
  IF sessions[sid] = NoSession THEN <<>> ELSE sessions[sid].messages

RemoveAt(s, i) == [j \in 1..(Len(s) - 1) |-> IF j < i THEN s[j] ELSE s[j + 1]]

\* no upstream response (the request made no upstream call, or its answer
\* changed no document)
NoResponse ==
  [ok |-> FALSE, status |-> 0, content |-> [text |-> "", json |-> NoJson],
   parsed |-> NoParsed]

\* the log of the last request handled: the handler, the status it answered
\* (0 while a chat turn awaits the upstream call) and, for a request that
\* changed the document, the document it started from, the inject list it
\* applied and the action; for a chat turn also whether it had an API key,
\* the upstream response, the document it captured before its await
\* (existingMel) and the session's document when it arrived (priorMel)
Call(op, status, sid, melId, action, isArray, existingMel, incoming) ==
  [op |-> op, status |-> status, sessionId |-> sid, melId |-> melId,
   action |-> action, isArray |-> isArray, existingMel |-> existingMel,
   incoming |-> incoming, response |-> NoResponse, hasKey |-> TRUE,
   priorMel |-> NoMel]

NoCall == Call("none", 0, "", NoId, "", FALSE, NoMel, <<>>)

Respond(op, status, sid) ==
  lastCall' = Call(op, status, sid, NoId, "", FALSE, NoMel, <<>>)

(***************************************************************************)
(* POST, up to its await of the upstream call (lines 253-321).             *)
(***************************************************************************)
\* the answer to a chat request without an API key (lines 258-263)
KeyRequired(sid) ==
  lastCall' = [Call("POST", 400, sid, NoId, "", FALSE, NoMel, <<>>)
                 EXCEPT !.hasKey = FALSE]

PostBeginSessionFirst(sid, hasKey, messages, currentMelData) ==
  LET session0 == IF sessions[sid] = NoSession THEN NewSession
                  ELSE sessions[sid]
      session1 == IF currentMelData # NoMel
                  THEN [session0 EXCEPT !.currentMel = currentMelData]
                  ELSE session0
      existingMel == IF currentMelData # NoMel THEN currentMelData
                     ELSE session1.currentMel
  IN IF ~hasKey
     THEN /\ KeyRequired(sid)
          /\ sessions' = [sessions EXCEPT ![sid] = session1]
          /\ UNCHANGED <<inflight, now, nextUuid, fnVars, sideVars>>
     ELSE /\ sessions' = [sessions EXCEPT ![sid] = session1]
          /\ inflight' = Append(inflight,
                                [sessionId |-> sid, messages |-> messages,
                                 existingMel |-> existingMel,
                                 priorMel |-> CurrentMelOf(sid)])
          /\ Respond("POST", 0, sid)
          /\ UNCHANGED <<now, nextUuid, fnVars, sideVars>>

PostBegin(sid, hasKey, messages, currentMelData) ==
  IF ~hasKey
  THEN /\ KeyRequired(sid)
       /\ UNCHANGED <<sessions, inflight, now, nextUuid, fnVars, sideVars>>
  ELSE LET session0 == IF sessions[sid] = NoSession THEN NewSession
                       ELSE sessions[sid]
           session1 == IF currentMelData # NoMel
                       THEN [session0 EXCEPT !.currentMel = currentMelData]
                       ELSE session0
           existingMel == IF currentMelData # NoMel THEN currentMelData
                          ELSE session1.currentMel
       IN /\ sessions' = [sessions EXCEPT ![sid] = session1]
          /\ inflight' = Append(inflight,
                                [sessionId |-> sid, messages |-> messages,
                                 existingMel |-> existingMel,
                                 priorMel |-> CurrentMelOf(sid)])
          /\ Respond("POST", 0, sid)
          /\ UNCHANGED <<now, nextUuid, fnVars, sideVars>>

(***************************************************************************)
(* POST, from the arrival of the upstream response on (lines 379-457).     *)
(***************************************************************************)
\* the MEL update of lines 403-419
PostMelDataAlwaysReplace(existingMel, extractedJson, action, base, timestamp) ==
  IF existingMel # NoMel /\ Len(existingMel.injects) > 0
  THEN updateMelVersion(existingMel, extractedJson, base, timestamp)
  ELSE createMelVersion(extractedJson, NoId, base, timestamp)

PostMelData(existingMel, extractedJson, action, base, timestamp) ==
  IF existingMel # NoMel /\ Len(existingMel.injects) > 0
  THEN IF action = "merge"
       THEN mergeMelUpdates(existingMel, extractedJson, base, timestamp)
       ELSE updateMelVersion(existingMel, extractedJson, base, timestamp)
  ELSE createMelVersion(extractedJson, NoId, base, timestamp)

PostUuids(existingMel, extractedJson, action, base, timestamp) ==
  IF existingMel # NoMel /\ Len(existingMel.injects) > 0
  THEN IF action = "merge"
       THEN MergeUuids(existingMel, extractedJson, base, timestamp)
       ELSE UpdateUuids(extractedJson)
  ELSE CreateUuids(extractedJson, NoId)

\* the source tag of line 431
PostSource(action) ==
  IF action = "merge" THEN "partial_update_responses" ELSE "full_creation_responses"

\* the document a chat turn computes its update from: existingMel, bound
\* before the await (line 291)
BaseMelCurrent(req, session) == session.currentMel

BaseMel(req, session) == req.existingMel

\* the session after a chat turn whose upstream call failed: the handler
\* returns before it writes anything (lines 379-390)
FailedSessionWithMessages(session, req) ==
  [session EXCEPT !.messages = req.messages]

FailedSession(session, req) == session

PostEnd(i, responseData) ==
  LET req == inflight[i]
      sid == req.sessionId
      session == sessions[sid]
      existingMel == BaseMel(req, session)
  IN /\ inflight' = RemoveAt(inflight, i)
     /\ IF ~responseData.ok
        THEN /\ lastCall' = [Call("POST", responseData.status, sid, NoId, "",
                                  FALSE, NoMel, <<>>)
                              EXCEPT !.response = responseData]
             /\ sessions' = [sessions EXCEPT ![sid] = FailedSession(session, req)]
             /\ UNCHANGED <<now, nextUuid, fnVars, sideVars>>
        ELSE LET out == processResponsesApiOutput(responseData)
                 finalContent == IF out.content # "" THEN out.content ELSE DefaultContent
                 hasInjects == out.extractedJson.kind = "array"
                 melData == PostMelData(existingMel, out.extractedJson.val,
                                        out.action, nextUuid, now)
                 session1 ==
                   IF hasInjects
                   THEN [session EXCEPT
                           !.currentMel = melData,
                           !.melHistory = PushHistory(@, HistoryEntry(melData, now,
                                                            PostSource(out.action)))]
                   ELSE session
                 session2 ==
                   [session1 EXCEPT
                      !.messages = Append(req.messages, Message("assistant", finalContent))]
             IN /\ hasInjects => Len(session.melHistory) < MaxHistory
                /\ sessions' = [sessions EXCEPT ![sid] = session2]
                /\ nextUuid' = IF hasInjects
                               THEN nextUuid + PostUuids(existingMel,
                                        out.extractedJson.val, out.action, nextUuid, now)
                               ELSE nextUuid
                /\ lastCall' =
                     IF hasInjects
                     THEN [Call("POST", 200, sid, NoId, out.action, TRUE,
                                req.existingMel, out.extractedJson.val)
                             EXCEPT !.response = responseData,
                                    !.priorMel = req.priorMel]
                     ELSE [Call("POST", 200, sid, NoId, "", FALSE,
                                req.existingMel, <<>>)
                             EXCEPT !.response = responseData,
                                    !.priorMel = req.priorMel]
                /\ UNCHANGED <<now, fnVars, sideVars>>

(***************************************************************************)
(* PUT: a user edit of the inject list (lines 493-557).                    *)
(***************************************************************************)
\* the request carries no sessionId
NoSid == ""

PutAcceptsAnyMel(currentMel, melId) == currentMel # NoMel

PutAccepts(currentMel, melId) == currentMel # NoMel /\ currentMel.melId = melId

PutSourceWrong == "partial_update_responses"

PutSource == "user_edit"

PutRejected(status, sid, melId, injects, action) ==
  lastCall' = Call("PUT", status, sid, melId, action, injects.kind = "array",
                   NoMel, <<>>)

PUT(sid, melId, injects, action) ==
  IF sid = NoSid
  THEN /\ PutRejected(400, sid, melId, injects, action)
       /\ UNCHANGED <<sessions, inflight, now, nextUuid, fnVars, sideVars>>
  ELSE IF sessions[sid] = NoSession
  THEN /\ PutRejected(404, sid, melId, injects, action)
       /\ UNCHANGED <<sessions, inflight, now, nextUuid, fnVars, sideVars>>
  ELSE IF action = "updateInjects" /\ injects.kind = "array"
  THEN LET session == sessions[sid]
           currentMel == session.currentMel
       IN IF ~PutAccepts(currentMel, melId)
          THEN /\ PutRejected(404, sid, melId, injects, action)
               /\ UNCHANGED <<sessions, inflight, now, nextUuid, fnVars, sideVars>>
          ELSE LET updatedMel == updateMelVersion(currentMel, injects.val, nextUuid, now)
               IN /\ Len(session.melHistory) < MaxHistory
                  /\ sessions' = [sessions EXCEPT ![sid] =
                       [session EXCEPT
                          !.currentMel = updatedMel,
                          !.melHistory = PushHistory(@, HistoryEntry(updatedMel, now,
                                                                       PutSource))]]
                  /\ nextUuid' = nextUuid + UpdateUuids(injects.val)
                  /\ lastCall' = Call("PUT", 200, sid, melId, action, TRUE,
                                       currentMel, injects.val)
                  /\ UNCHANGED <<inflight, now, fnVars, sideVars>>
  ELSE /\ PutRejected(400, sid, melId, injects, action)
       /\ UNCHANGED <<sessions, inflight, now, nextUuid, fnVars, sideVars>>

(***************************************************************************)
(* Inputs of the handlers.                                                 *)
(***************************************************************************)
\* injects of a response or of a user edit, given the document in front of
\* their author: written anew, or an entry of the document, edited or not
Written(mel, n) ==
  AuthorInject(n, "A", IF Len(mel.injects) = 0 THEN "m1" ELSE "m2")

ChatInjects(mel) ==
  {Written(mel, n) : n \in Numbers}
  \cup {[e EXCEPT !.Message = "m2"] : e \in Range(mel.injects)}

ChatBatches(mel) == SeqsUpTo(ChatInjects(mel), MaxBatch)

\* the message list a chat request carries
ClientMessages == {<<Message("user", "q")>>}

\* the snapshot a client may send as currentMelData: none, or a document
\* the server returned to it earlier
Snapshots(sid) == {NoMel} \cup {MelOf(h) : h \in Range(HistoryOf(sid))}

\* upstream responses: a failure, or a success with free text and possibly
\* JSON in it and possibly a structured field
UpstreamStatuses == {429, 500}

Response(ok, status, text, json, parsed) ==
  [ok |-> ok, status |-> status, content |-> [text |-> text, json |-> json],
   parsed |-> parsed]

Parsed(action, isArray, updatedInjects) ==
  [present |-> TRUE, action |-> action, isArray |-> isArray,
   updatedInjects |-> updatedInjects]

Responses(mel) ==
  {Response(FALSE, st, "", NoJson, NoParsed) : st \in UpstreamStatuses}
  \cup {Response(TRUE, 200, t, NoJson, NoParsed) : t \in {"", "reply"}}
  \cup {Response(TRUE, 200, "reply", Json(k, <<>>), NoParsed) : k \in {"bad", "object"}}
  \cup {Response(TRUE, 200, "reply", Json("array", b), NoParsed) : b \in ChatBatches(mel)}
  \cup {Response(TRUE, 200, "", NoJson, Parsed("replace", TRUE, b)) :
          b \in ChatBatches(mel)}
  \cup {Response(TRUE, 200, "reply", Json("array", <<Written(mel, 1)>>),
                 Parsed(a, ia, <<Written(mel, 2)>>)) :
          a \in {"merge", "replace", ""}, ia \in BOOLEAN}

\* user-edit requests: well-formed ones naming the current document, and
\* ones rejected for their session, melId, action or payload
PutRequest(sid, melId, injects, action) ==
  [sessionId |-> sid, melId |-> melId, injects |-> injects, action |-> action]

OtherMelIds(sid) ==
  ({NoId} \cup {h.melId : h \in Range(HistoryOf(sid))}) \ {CurrentMelOf(sid).melId}

PutRequests ==
  {PutRequest(NoSid, NoId, Json("array", <<>>), "updateInjects")}
  \cup UNION {
       {PutRequest(sid, CurrentMelOf(sid).melId, Json("array", b), "updateInjects") :
          b \in ChatBatches(CurrentMelOf(sid))}
       \cup {PutRequest(sid, m, Json("array", <<>>), a) :
               m \in OtherMelIds(sid), a \in {"updateInjects", "other"}}
       \cup {PutRequest(sid, CurrentMelOf(sid).melId, Json("object", <<>>), "updateInjects"),
             PutRequest(sid, CurrentMelOf(sid).melId, Json("array", <<>>), "other")}
       : sid \in SessionIds}

(***************************************************************************)
(* The sessions endpoint (src/src/app/api/sessions/route.ts): a map of its *)
(* own from session identifier to saved session.                           *)
(***************************************************************************)
SavedIds == {"s1", "s2"}

\* no entry under an identifier
NoSaved == [exists |-> FALSE]

\* the request carries no exercise
NoExercise == ""

Exercises == {NoExercise, "e1", "e2"}

SavedMessages == {<<>>, <<Message("user", "q")>>}

SessionData(id, exercise, messages, lastActivity, createdAt) ==
  [exists |-> TRUE, id |-> id, exercise |-> exercise, messages |-> messages,
   lastActivity |-> lastActivity, createdAt |-> createdAt]

\* the log of the last request to the endpoint: the request and the answer
\* (status, and the session or the identifiers listed in the body)
SavedCall(op, sessionId, exercise, messages, status, session, listed) ==
  [op |-> op, sessionId |-> sessionId, exercise |-> exercise,
   messages |-> messages, status |-> status, session |-> session,
   listed |-> listed]

NoSavedCall == SavedCall("none", NoSid, NoExercise, <<>>, 0, NoSaved, {})

\* sessions.get(sessionId)?.createdAt || new Date().toISOString()
CreatedAtNow(existing, timestamp) == timestamp

CreatedAt(existing, timestamp) ==
  IF existing.exists THEN existing.createdAt ELSE timestamp

SessionsGET(sessionId) ==
  /\ savedCall' =
       IF sessionId = NoSid
       THEN SavedCall("GET", sessionId, NoExercise, <<>>, 200, NoSaved,
                      {id \in SavedIds : saved[id].exists})
       ELSE IF ~saved[sessionId].exists
       THEN SavedCall("GET", sessionId, NoExercise, <<>>, 404, NoSaved, {})
       ELSE SavedCall("GET", sessionId, NoExercise, <<>>, 200, saved[sessionId], {})
  /\ UNCHANGED <<saved, ui, sessVars, fnVars, now, nextUuid>>

SessionsPOST(sessionId, exercise, messages) ==
  IF sessionId = NoSid
  THEN /\ savedCall' = SavedCall("POST", sessionId, exercise, messages, 400, NoSaved, {})
       /\ UNCHANGED <<saved, ui, sessVars, fnVars, now, nextUuid>>
  ELSE LET session == SessionData(sessionId, exercise, messages, now,
                                  CreatedAt(saved[sessionId], now))
       IN /\ saved' = [saved EXCEPT ![sessionId] = session]
          /\ savedCall' = SavedCall("POST", sessionId, exercise, messages, 200, session, {})
          /\ UNCHANGED <<ui, sessVars, fnVars, now, nextUuid>>

SessionsDELETE(sessionId) ==
  IF sessionId = NoSid
  THEN /\ savedCall' = SavedCall("DELETE", sessionId, NoExercise, <<>>, 400, NoSaved, {})
       /\ UNCHANGED <<saved, ui, sessVars, fnVars, now, nextUuid>>
  ELSE /\ saved' = [saved EXCEPT ![sessionId] = NoSaved]
       /\ savedCall' = SavedCall("DELETE", sessionId, NoExercise, <<>>, 200, NoSaved, {})
       /\ UNCHANGED <<ui, sessVars, fnVars, now, nextUuid>>

(***************************************************************************)
(* The ChatUI component (src/src/components/ChatUI.tsx): its input, its    *)
(* isLoading flag, the message list it shows and its chat requests in      *)
(* flight.  sendMessage runs up to its fetch inside one event handler,     *)
(* whose state updates are committed before the next event is handled.     *)
(***************************************************************************)
\* messages the component may show
MaxUiMessages == 6

UiTexts == {"", " ", "hi", "yo"}

\* String.prototype.trim on the texts above
Trim(text) == IF text = " " THEN "" ELSE text

\* the message shown when the request fails (line 252)
UiErrorText ==
  "Sorry, I encountered an error while processing your request. Please try again."

\* how a chat request ends: an answer, a non-ok status (line 170) or a
\* rejected fetch
UiOutcomes == {"ok", "httpError", "networkError"}

InitialUi ==
  [inputValue |-> "", isLoading |-> FALSE, messages |-> <<>>, requests |-> <<>>]

\* the textarea's onChange; the textarea is disabled while isLoading
setInputValue(text) ==
  /\ ~ui.isLoading
  /\ ui' = [ui EXCEPT !.inputValue = text]
  /\ UNCHANGED <<saved, savedCall, sessVars, fnVars, now, nextUuid>>

\* the negation of the early return of line 109
CanSend(inputValue, isLoading) == Trim(inputValue) # "" /\ ~isLoading

\* sendMessage up to its fetch (lines 108-168)
sendMessage ==
  /\ IF ~CanSend(ui.inputValue, ui.isLoading)
     THEN UNCHANGED ui
     ELSE LET updatedMessages ==
                Append(ui.messages, Message("user", Trim(ui.inputValue)))
          IN /\ Len(ui.messages) + 2 <= MaxUiMessages
             /\ ui' = [inputValue |-> "", isLoading |-> TRUE,
                       messages |-> updatedMessages,
                       requests |-> Append(ui.requests,
                                           [updatedMessages |-> updatedMessages])]
  /\ UNCHANGED <<saved, savedCall, sessVars, fnVars, now, nextUuid>>

\* isLoading after the finally block (lines 256-258)
LoadingAfterKeptOnError(outcome) == outcome # "ok"

LoadingAfter(outcome) == FALSE

\* sendMessage from the resolution of its fetch on (lines 170-258)
sendMessageSettle(i, outcome) ==
  LET req == ui.requests[i]
      reply == Message("assistant", IF outcome = "ok" THEN "reply" ELSE UiErrorText)
  IN /\ ui' = [ui EXCEPT !.messages = Append(req.updatedMessages, reply),
                         !.isLoading = LoadingAfter(outcome),
                         !.requests = RemoveAt(ui.requests, i)]
     /\ UNCHANGED <<saved, savedCall, sessVars, fnVars, now, nextUuid>>

(***************************************************************************)
(* The wall clock read by new Date().  Its values are only compared with   *)
(* one another, so an instant matters only if something was stamped at the *)
(* one before: the clock moves on from an instant that stamped a document. *)
(***************************************************************************)
StampedNow ==
  \/ fnOut.timestamp = now
  \/ \E sid \in SessionIds : \E h \in Range(HistoryOf(sid)) : h.timestamp = now
  \/ \E id \in SavedIds : saved[id].exists /\ saved[id].lastActivity = now

Tick ==
  /\ now < MaxTime
  /\ StampedNow
  /\ now' = now + 1
  /\ UNCHANGED <<sessVars, fnVars, sideVars, nextUuid>>

InitCommon ==
  /\ sessions = [s \in SessionIds |-> NoSession]
  /\ inflight = <<>>
  /\ lastCall = NoCall
  /\ now = 0
  /\ nextUuid = 1
  /\ fnPrev = NoMel
  /\ fnIn = <<>>
  /\ fnOut = NoMel
  /\ fnOp = "none"
  /\ saved = [id \in SavedIds |-> NoSaved]
  /\ savedCall = NoSavedCall
  /\ ui = InitialUi

Init == InitCommon

NextMerge ==
  \/ Tick
  \/ \E injects \in SeqsUpTo(BuildInjects, MaxDocLen) : FnCreate(injects)
  \/ /\ fnOut.version <= MaxOps
     /\ \E injects \in IncomingLists(fnOut) : FnUpdate(injects)
  \/ /\ fnOut.version <= MaxOps
     /\ \E injects \in IncomingLists(fnOut) : FnMerge(injects)

SpecMerge == Init /\ [][NextMerge]_vars

(***************************************************************************)
(* SpecChain: longer sequences of builds, replacements (which is what a    *)
(* user edit applies) and merges, over a smaller alphabet of injects.      *)
(***************************************************************************)
\* inject lists built from: injects as the language model writes them
ChainBuilds ==
  SeqsUpTo({AuthorInject(n, "A", "m1") : n \in Numbers}, MaxIncoming)

\* inject lists replacing or merged into doc: injects written anew, or
\* entries of doc with a new message
ChainLists(doc) ==
  SeqsUpTo({AuthorInject(n, "A", "m2") : n \in Numbers}
             \cup {[e EXCEPT !.Message = "m2"] : e \in Range(doc.injects)},
           MaxIncoming)

NextChain ==
  \/ Tick
  \/ \E injects \in ChainBuilds : FnCreate(injects)
  \/ /\ fnOut.version <= MaxChain
     /\ \E injects \in ChainLists(fnOut) : FnUpdate(injects)
  \/ /\ fnOut.version <= MaxChain
     /\ \E injects \in ChainLists(fnOut) : FnMerge(injects)

SpecChain == Init /\ [][NextChain]_vars


Next ==
  \/ Tick
  \/ \E sid \in SessionIds, hasKey \in BOOLEAN, messages \in ClientMessages :
       \E currentMelData \in Snapshots(sid) :
         /\ hasKey => Len(inflight) < MaxInflight
         /\ PostBegin(sid, hasKey, messages, currentMelData)
  \/ \E i \in 1..Len(inflight) :
       \E responseData \in Responses(inflight[i].existingMel) : PostEnd(i, responseData)
  \/ \E r \in PutRequests : PUT(r.sessionId, r.melId, r.injects, r.action)

Spec == Init /\ [][Next]_vars

(***************************************************************************)
(* SpecRace: requests on one session interleaving, two chat turns awaiting *)
(* the upstream call at once included, over a smaller alphabet.  The map   *)
(* of sessions is in memory only: a client may hold a document of an       *)
(* earlier server process and send it as currentMelData.                   *)
(***************************************************************************)
\* identifiers minted by an earlier server process
EarlierUuids == {201, 202, 203}

\* the document a client holds from an earlier server process: built from
\* one inject
ClientDoc ==
  [melId |-> 201, version |-> 1, timestamp |-> 0,
   injects |-> <<Inject(202, 201, 1, "A", "m1", 0, 0)>>,
   totalInjects |-> 1,
   events |-> <<[id |-> 203, name |-> "A", injectCount |-> 1]>>]

\* upstream responses of the racing chat turns: no JSON, a one-inject
\* array in the text, or a structured one-inject replacement
RaceResponses(mel) ==
  {Response(TRUE, 200, "reply", NoJson, NoParsed)}
  \cup {Response(TRUE, 200, "reply", Json("array", <<x>>), NoParsed) :
          x \in ChatInjects(mel)}
  \cup {Response(TRUE, 200, "", NoJson, Parsed("replace", TRUE, <<Written(mel, 2)>>))}

\* user edits of the current document: one of its injects, or a new one
RacePuts ==
  UNION {{PutRequest(sid, CurrentMelOf(sid).melId, Json("array", <<x>>), "updateInjects") :
            x \in ChatInjects(CurrentMelOf(sid))} : sid \in SessionIds}

NextRace ==
  \/ Tick
  \/ \E sid \in SessionIds, messages \in ClientMessages :
       \E currentMelData \in {NoMel, ClientDoc} :
         /\ Len(inflight) < MaxRacing
         /\ PostBegin(sid, TRUE, messages, currentMelData)
  \/ \E i \in 1..Len(inflight) :
       \E responseData \in RaceResponses(inflight[i].existingMel) : PostEnd(i, responseData)
  \/ \E r \in RacePuts : PUT(r.sessionId, r.melId, r.injects, r.action)

SpecRace == Init /\ [][NextRace]_vars

(***************************************************************************)
(* SpecSessions: requests to the sessions endpoint.                        *)
(***************************************************************************)
NextSessions ==
  \/ Tick
  \/ \E sessionId \in SavedIds \cup {NoSid} : SessionsGET(sessionId)
  \/ \E sessionId \in SavedIds \cup {NoSid}, exercise \in Exercises,
        messages \in SavedMessages : SessionsPOST(sessionId, exercise, messages)
  \/ \E sessionId \in SavedIds \cup {NoSid} : SessionsDELETE(sessionId)

SpecSessions == Init /\ [][NextSessions]_vars

(***************************************************************************)
(* SpecChatUI: the events of one ChatUI component.                         *)
(***************************************************************************)
NextChatUI ==
  \/ \E text \in UiTexts : setInputValue(text)
  \/ sendMessage
  \/ \E i \in 1..Len(ui.requests), outcome \in UiOutcomes :
       sendMessageSettle(i, outcome)

SpecChatUI == Init /\ [][NextChatUI]_vars

(***************************************************************************)
(* Claims about the merge engine, checked under SpecMerge.                 *)
(***************************************************************************)
\* the last operation was a partial merge: mergeMelUpdates on a document
\* with injects and an incoming batch strictly shorter than its list
PartialMerge ==
  /\ fnOp = "merge"
  /\ fnPrev # NoMel
  /\ Len(fnIn) < Len(fnPrev.injects)

\* no incoming inject has the identifier or the Number of the existing
\* entry at position p
Unaddressed(p) ==
  \A k \in 1..Len(fnIn) :
    /\ fnPrev.injects[p].id # fnIn[k].id
    /\ fnPrev.injects[p].Number # fnIn[k].Number

\* C1 as stated: in a partial merge every existing inject that no incoming
\* inject matches by identifier or Number is in the result at the same
\* position, identical in every field, lastModified included.
C1_Original ==
  PartialMerge =>
    \A p \in 1..Len(fnPrev.injects) :
      Unaddressed(p) =>
        /\ p <= Len(fnOut.injects)
        /\ fnOut.injects[p] = fnPrev.injects[p]

\* C1 amended: in a partial merge every existing inject that no incoming
\* inject matches by identifier or Number is in the result at the same
\* position, identical in every field except lastModified, which is
\* re-stamped with the timestamp of the new version.
C1_Amended ==
  PartialMerge =>
    \A p \in 1..Len(fnPrev.injects) :
      Unaddressed(p) =>
        /\ p <= Len(fnOut.injects)
        /\ fnOut.injects[p] =
             [fnPrev.injects[p] EXCEPT !.lastModified = fnOut.timestamp]

\* a partial merge rewrote one entry and left another, older one unaddressed
C1_Witness ==
  /\ PartialMerge
  /\ \E p, q \in 1..Len(fnPrev.injects) :
       /\ Unaddressed(p)
       /\ fnPrev.injects[p].lastModified < fnOut.timestamp
       /\ ~Unaddressed(q)
       /\ fnOut.injects[q].Message # fnPrev.injects[q].Message

\* the existing entry the k-th incoming inject matches: the first one with
\* its identifier or its Number (0 if none)
MatchedExisting(k) ==
  LET Test(e) == e.id = fnIn[k].id \/ e.Number = fnIn[k].Number
  IN FindIndex(fnPrev.injects, Test)

\* no other inject of the batch has the identifier or Number of the existing
\* entry at p, or the Number of the k-th incoming inject
SoleAddresser(k, p) ==
  \A j \in 1..Len(fnIn) :
    j # k =>
      /\ fnIn[j].id # fnPrev.injects[p].id
      /\ fnIn[j].Number # fnPrev.injects[p].Number
      /\ fnIn[j].Number # fnIn[k].Number

\* the entry at p carries the author fields of incoming inject k, the
\* identifier of the existing entry at p and the existing document's melId
CarriesIncoming(k, p) ==
  /\ p <= Len(fnOut.injects)
  /\ fnOut.injects[p].Number = fnIn[k].Number
  /\ fnOut.injects[p].Serial = fnIn[k].Serial
  /\ fnOut.injects[p].Message = fnIn[k].Message
  /\ fnOut.injects[p].id = fnPrev.injects[p].id
  /\ fnOut.injects[p].melId = fnPrev.melId

\* C2 as stated: in a partial merge, when an incoming inject matches an
\* existing entry, the entry at that position in the result carries the
\* incoming inject's author fields, the matched entry's identifier and the
\* existing document's melId.
C2_Original ==
  PartialMerge =>
    \A k \in 1..Len(fnIn) :
      MatchedExisting(k) > 0 => CarriesIncoming(k, MatchedExisting(k))

\* C2 amended: the same, provided no other inject of the batch has the
\* identifier or Number of that entry or the Number of the incoming inject
\* (a later match at the same position overwrites an earlier one, and each
\* incoming inject is matched against the list as the earlier ones left it).
C2_Amended ==
  PartialMerge =>
    \A k \in 1..Len(fnIn) :
      (MatchedExisting(k) > 0 /\ SoleAddresser(k, MatchedExisting(k)))
        => CarriesIncoming(k, MatchedExisting(k))

\* an incoming inject carrying another entry's identifier and a foreign
\* melId was matched by Number, and changed the entry's message
C2_Witness ==
  /\ PartialMerge
  /\ \E k \in 1..Len(fnIn) :
       LET p == MatchedExisting(k)
       IN /\ p > 0
          /\ SoleAddresser(k, p)
          /\ fnIn[k].id # NoId
          /\ fnIn[k].id # fnPrev.injects[p].id
          /\ fnIn[k].melId # fnPrev.melId
          /\ fnIn[k].Message # fnPrev.injects[p].Message
          /\ CarriesIncoming(k, p)

\* an empty batch was merged into a document with injects
EmptyMerge ==
  /\ fnOp = "merge"
  /\ fnIn = <<>>
  /\ Len(fnPrev.injects) > 0

\* C10 as stated: merging an empty list into a non-empty document returns
\* a document with the same injects and a version exactly one higher.
C10_Original ==
  EmptyMerge =>
    /\ fnOut.injects = fnPrev.injects
    /\ fnOut.version = fnPrev.version + 1

\* C10 amended: merging an empty list into a non-empty document returns a
\* document with the same injects in the same order, each identical except
\* for its re-stamped lastModified, and a version exactly one higher.
C10_Amended ==
  EmptyMerge =>
    /\ Len(fnOut.injects) = Len(fnPrev.injects)
    /\ \A p \in 1..Len(fnPrev.injects) :
         fnOut.injects[p] =
           [fnPrev.injects[p] EXCEPT !.lastModified = fnOut.timestamp]
    /\ fnOut.version = fnPrev.version + 1

\* an empty batch was merged, later than the document was built
C10_Witness ==
  /\ EmptyMerge
  /\ fnOut.version = 2
  /\ fnOut.timestamp > fnPrev.timestamp
  /\ Len(fnOut.injects) >= 2

(***************************************************************************)
(* Claims about the handlers, checked under Spec.                          *)
(***************************************************************************)
\* the last request handled changed the document of its session
Changed ==
  /\ lastCall.op \in {"POST", "PUT"}
  /\ lastCall.status = 200
  /\ lastCall.isArray

\* the step handles a request that changes the document of session sid: it
\* answers a request (a chat turn's answer also takes it out of inflight)
ChangeStep(sid) ==
  /\ lastCall' # lastCall \/ Len(inflight') < Len(inflight)
  /\ lastCall'.op \in {"POST", "PUT"}
  /\ lastCall'.status = 200
  /\ lastCall'.isArray
  /\ lastCall'.sessionId = sid

Last(s) == s[Len(s)]

\* no inject of the batch has the identifier or the Number of e
UnaddressedBy(e, incoming) ==
  \A k \in 1..Len(incoming) : e.id # incoming[k].id /\ e.Number # incoming[k].Number

\* mel holds e, identical but for the re-stamped lastModified
StillPresent(e, mel) ==
  \E q \in 1..Len(mel.injects) :
    mel.injects[q] = [e EXCEPT !.lastModified = mel.injects[q].lastModified]

\* the last request handled was a chat turn with action 'merge' against a
\* document with at least one inject
MergeTurn ==
  /\ Changed
  /\ lastCall.op = "POST"
  /\ lastCall.action = "merge"
  /\ Len(lastCall.existingMel.injects) >= 1

\* C3 as stated: after a chat turn with action 'merge' against a document
\* with at least one inject, every inject of that document that no incoming
\* inject addresses by identifier or Number is present in the session's
\* current document, whatever the length of the incoming batch.
C3_Original ==
  MergeTurn =>
    \A p \in 1..Len(lastCall.existingMel.injects) :
      UnaddressedBy(lastCall.existingMel.injects[p], lastCall.incoming)
        => StillPresent(lastCall.existingMel.injects[p],
                        CurrentMelOf(lastCall.sessionId))

\* C3 amended: the same for an incoming batch strictly shorter than the
\* existing document's inject list (a batch of equal or greater length
\* replaces the list wholesale, also under action 'merge').
C3_Amended ==
  (MergeTurn /\ Len(lastCall.incoming) < Len(lastCall.existingMel.injects)) =>
    \A p \in 1..Len(lastCall.existingMel.injects) :
      UnaddressedBy(lastCall.existingMel.injects[p], lastCall.incoming)
        => StillPresent(lastCall.existingMel.injects[p],
                        CurrentMelOf(lastCall.sessionId))

\* a merge turn with a shorter, non-empty batch left an unaddressed inject
\* in the stored document and rewrote another
C3_Witness ==
  /\ MergeTurn
  /\ Len(lastCall.incoming) >= 1
  /\ Len(lastCall.incoming) < Len(lastCall.existingMel.injects)
  /\ \E p, q \in 1..Len(lastCall.existingMel.injects) :
       /\ UnaddressedBy(lastCall.existingMel.injects[p], lastCall.incoming)
       /\ StillPresent(lastCall.existingMel.injects[p],
                       CurrentMelOf(lastCall.sessionId))
       /\ ~StillPresent(lastCall.existingMel.injects[q],
                        CurrentMelOf(lastCall.sessionId))

\* C4 as stated: the version of a session's current document never
\* decreases, and every accepted change makes it exactly one greater than
\* it was before the change (1 after the first, from no document).
C4_Original ==
  [][\A sid \in SessionIds :
       /\ CurrentMelOf(sid)'.version >= CurrentMelOf(sid).version
       /\ ChangeStep(sid) =>
            CurrentMelOf(sid)'.version = CurrentMelOf(sid).version + 1]_vars

\* C4 amended: every accepted change makes the version of the session's
\* current document 1 when a chat turn builds the document anew (its base
\* document, the request's currentMelData or else the session's current
\* document when the request arrived, is absent or has no injects), and
\* otherwise exactly one greater than the version of the document the
\* change was computed from.
C4_Amended ==
  Changed =>
    CurrentMelOf(lastCall.sessionId).version =
      IF lastCall.op = "POST" /\ Len(lastCall.existingMel.injects) = 0
      THEN 1
      ELSE lastCall.existingMel.version + 1

\* a second accepted change took the document from version 1 to version 2
C4_Witness ==
  /\ Changed
  /\ lastCall.existingMel.version = 1
  /\ Len(lastCall.existingMel.injects) > 0
  /\ CurrentMelOf(lastCall.sessionId).version = 2
  /\ Len(HistoryOf(lastCall.sessionId)) = 2

\* C5: once a session has a current document, every accepted merge, replace
\* or user edit yields a current document with the same melId, also when
\* the document's inject list had become empty.
C5_Claim ==
  [][\A sid \in SessionIds :
       (ChangeStep(sid) /\ CurrentMelOf(sid) # NoMel) =>
         CurrentMelOf(sid)'.melId = CurrentMelOf(sid).melId]_vars

\* the step handles a PUT for an identified session whose current document
\* is absent or has another melId than the request names
MismatchedPut(sid) ==
  /\ lastCall'.op = "PUT"
  /\ lastCall'.sessionId = sid
  /\ \/ CurrentMelOf(sid) = NoMel
     \/ CurrentMelOf(sid).melId # lastCall'.melId

AcceptedPut(sid) ==
  /\ lastCall' # lastCall
  /\ lastCall'.op = "PUT"
  /\ lastCall'.status = 200
  /\ lastCall'.sessionId = sid

\* what an accepted PUT does besides setting the inject list
PutBumps(sid) ==
  /\ CurrentMelOf(sid)'.melId = CurrentMelOf(sid).melId
  /\ CurrentMelOf(sid)'.version = CurrentMelOf(sid).version + 1
  /\ Len(HistoryOf(sid)') = Len(HistoryOf(sid)) + 1
  /\ SubSeq(HistoryOf(sid)', 1, Len(HistoryOf(sid))) = HistoryOf(sid)
  /\ Last(HistoryOf(sid)').source = "user_edit"

\* C7 as stated: an accepted PUT sets the session's current document to one
\* with the same melId, a version exactly one higher and an inject list
\* equal to the submitted list, and appends exactly one history entry tagged
\* 'user_edit'.
C7_Original ==
  [][\A sid \in SessionIds :
       AcceptedPut(sid) =>
         /\ PutBumps(sid)
         /\ CurrentMelOf(sid)'.injects = lastCall'.incoming]_vars

\* C7 amended: the same, the inject list being the submitted list with the
\* lastModified of every inject re-stamped with the new version's timestamp.
C7_Amended ==
  [][\A sid \in SessionIds :
       AcceptedPut(sid) =>
         /\ PutBumps(sid)
         /\ CurrentMelOf(sid)'.injects =
              [i \in 1..Len(lastCall'.incoming) |->
                 [lastCall'.incoming[i] EXCEPT
                    !.lastModified = CurrentMelOf(sid)'.timestamp]]]_vars

\* an accepted user edit submitted injects stamped earlier or not at all
C7_Witness ==
  /\ lastCall.op = "PUT"
  /\ lastCall.status = 200
  /\ Len(lastCall.incoming) >= 2
  /\ \E i \in 1..Len(lastCall.incoming) :
       lastCall.incoming[i].lastModified
         # CurrentMelOf(lastCall.sessionId).timestamp
  /\ Last(HistoryOf(lastCall.sessionId)).source = "user_edit"
  /\ CurrentMelOf(lastCall.sessionId).version = lastCall.existingMel.version + 1

\* C8: every accepted build, merge, replace or user edit appends exactly one
\* entry to the session's melHistory, with the melId, version and injects
\* of the document that becomes current; no other step changes the history,
\* which therefore never shrinks and never has an entry changed.
C8_HistoryAppendOnly ==
  [][\A sid \in SessionIds :
       /\ Len(HistoryOf(sid)') >= Len(HistoryOf(sid))
       /\ SubSeq(HistoryOf(sid)', 1, Len(HistoryOf(sid))) = HistoryOf(sid)
       /\ IF ChangeStep(sid)
          THEN /\ Len(HistoryOf(sid)') = Len(HistoryOf(sid)) + 1
               /\ Last(HistoryOf(sid)').melId = CurrentMelOf(sid)'.melId
               /\ Last(HistoryOf(sid)').version = CurrentMelOf(sid)'.version
               /\ Last(HistoryOf(sid)').injects = CurrentMelOf(sid)'.injects
          ELSE HistoryOf(sid)' = HistoryOf(sid)]_vars

\* a second accepted change was appended after a first, different entry
C8_Witness ==
  /\ Changed
  /\ Len(HistoryOf(lastCall.sessionId)) = 2
  /\ HistoryOf(lastCall.sessionId)[1].injects
       # HistoryOf(lastCall.sessionId)[2].injects
  /\ MelOf(HistoryOf(lastCall.sessionId)[2]) = CurrentMelOf(lastCall.sessionId)

\* the provenance tags, with or without the route's suffix
FullCreationTags == {"full_creation", "full_creation_responses"}

PartialUpdateTags == {"partial_update", "partial_update_responses"}

FullReplacementTags == {"full_replacement", "full_replacement_responses"}

UserEditTags == {"user_edit"}

\* the tags that say how the last accepted change produced its document
ProducedAs ==
  IF lastCall.op = "PUT" THEN UserEditTags
  ELSE IF Len(lastCall.existingMel.injects) = 0 THEN FullCreationTags
  ELSE IF lastCall.action = "merge"
          /\ Len(lastCall.incoming) < Len(lastCall.existingMel.injects)
       THEN PartialUpdateTags
  ELSE FullReplacementTags

\* C9: the provenance tag of a history entry says how the entry was
\* produced: full creation for a newly built document, partial update for a
\* partial merge, full replacement for a wholesale replacement, user edit
\* for a PUT.
C9_Claim ==
  Changed => Last(HistoryOf(lastCall.sessionId)).source \in ProducedAs

(***************************************************************************)
(* Claims about the builder, the replacement and the merge engine, checked *)
(* under SpecMerge.                                                        *)
(***************************************************************************)
\* the last operation was updateMelVersion
Replaced == fnOp = "update"

\* e and f are the same inject but for lastModified
SameButStamp(e, f) == e = [f EXCEPT !.lastModified = e.lastModified]

\* C11: updateMelVersion(doc, R) yields a document whose inject list is R in
\* the same order with only lastModified re-stamped (with the new version's
\* timestamp), whose totalInjects is the length of R, whose melId is that of
\* doc and whose version is one higher; no inject of doc absent from R
\* remains.
C11_Replace ==
  Replaced =>
    /\ Len(fnOut.injects) = Len(fnIn)
    /\ \A i \in 1..Len(fnIn) :
         fnOut.injects[i] = [fnIn[i] EXCEPT !.lastModified = fnOut.timestamp]
    /\ fnOut.totalInjects = Len(fnIn)
    /\ fnOut.melId = fnPrev.melId
    /\ fnOut.version = fnPrev.version + 1
    /\ \A e \in Range(fnPrev.injects) :
         (\A i \in 1..Len(fnIn) : ~SameButStamp(e, fnIn[i]))
           => \A q \in 1..Len(fnOut.injects) : ~SameButStamp(e, fnOut.injects[q])

\* a list of a different length replaced a longer one at a later instant,
\* and an inject of the old list is in neither the new list nor the result
C11_Witness ==
  /\ Replaced
  /\ Len(fnIn) >= 1
  /\ Len(fnIn) < Len(fnPrev.injects)
  /\ fnOut.timestamp > fnPrev.timestamp
  /\ fnOut.totalInjects # fnPrev.totalInjects
  /\ \E e \in Range(fnPrev.injects) :
       /\ \A i \in 1..Len(fnIn) : e.id # fnIn[i].id
       /\ \A q \in 1..Len(fnOut.injects) : e.id # fnOut.injects[q].id

\* the last operation was createMelVersion
Built == fnOp = "create"

\* the distinct Serial values of an inject list
SerialsOf(injects) == {injects[i].Serial : i \in 1..Len(injects)}

\* C12: for every inject list L, createMelVersion(L) has version 1, an
\* inject list of the same length and order as L (the i-th inject carries
\* the author fields of the i-th inject of L), and as many events as L has
\* distinct Serial values.
C12_Build ==
  Built =>
    /\ fnOut.version = 1
    /\ Len(fnOut.injects) = Len(fnIn)
    /\ \A i \in 1..Len(fnIn) :
         /\ fnOut.injects[i].Number = fnIn[i].Number
         /\ fnOut.injects[i].Serial = fnIn[i].Serial
         /\ fnOut.injects[i].Message = fnIn[i].Message
    /\ Len(fnOut.events) = Cardinality(SerialsOf(fnIn))

\* a list of three injects with two Serial values, one of them twice, was
\* built
C12_Witness ==
  /\ Built
  /\ Len(fnIn) = 3
  /\ Cardinality(SerialsOf(fnIn)) = 2
  /\ fnIn[1].Number # fnIn[2].Number
  /\ Len(fnOut.events) = 2

\* C13: in the document returned by createMelVersion every inject has an
\* identifier and no two injects share one, for every input list, lists in
\* which some injects already carry identifiers included.
C13_Claim ==
  Built =>
    /\ \A i \in 1..Len(fnOut.injects) : fnOut.injects[i].id # NoId
    /\ \A i, j \in 1..Len(fnOut.injects) :
         i # j => fnOut.injects[i].id # fnOut.injects[j].id

\* the last operation replaced the injects of a document by its own list
RoundTrip ==
  /\ Replaced
  /\ fnIn = fnPrev.injects

\* C14: building a document and then replacing its injects with the build's
\* own inject list yields a document equal to the built one in melId, in
\* inject content (every field but lastModified), in totalInjects and in
\* the names and counts of its events.
C14_RoundTrip ==
  RoundTrip =>
    /\ fnOut.melId = fnPrev.melId
    /\ Len(fnOut.injects) = Len(fnPrev.injects)
    /\ \A i \in 1..Len(fnPrev.injects) :
         SameButStamp(fnOut.injects[i], fnPrev.injects[i])
    /\ fnOut.totalInjects = fnPrev.totalInjects
    /\ Len(fnOut.events) = Len(fnPrev.events)
    /\ \A k \in 1..Len(fnPrev.events) :
         /\ fnOut.events[k].name = fnPrev.events[k].name
         /\ fnOut.events[k].injectCount = fnPrev.events[k].injectCount

\* a built document with two events was fed its own injects at a later
\* instant
C14_Witness ==
  /\ RoundTrip
  /\ fnPrev.version = 1
  /\ fnOut.version = 2
  /\ Len(fnPrev.events) = 2
  /\ Len(fnPrev.injects) = 3
  /\ fnOut.timestamp > fnPrev.timestamp

\* the last operation was mergeMelUpdates on no document or on a document
\* with an empty inject list
MergedIntoNothing ==
  /\ fnOp = "merge"
  /\ fnPrev = NoMel \/ Len(fnPrev.injects) = 0

MergeOnDoc ==
  /\ fnOp = "merge"
  /\ fnPrev # NoMel

\* the existing entry at position p has neither its identifier nor its
\* Number in the incoming batch
AbsentFromBatch(p) ==
  \A i \in 1..Len(fnIn) :
    /\ fnIn[i].id # fnPrev.injects[p].id
    /\ fnIn[i].Number # fnPrev.injects[p].Number

\* C16: mergeMelUpdates reconciles an incoming batch as a partial merge
\* (every existing position keeps its identifier, entries no incoming inject
\* addresses stay as they were, the list does not shrink) exactly when the
\* batch is strictly shorter than the existing inject list; a batch of equal
\* or greater length becomes the whole list, as it came and re-stamped, so
\* existing injects absent from the batch are dropped.
C16_LengthRule ==
  MergeOnDoc =>
    IF Len(fnIn) < Len(fnPrev.injects)
    THEN /\ Len(fnOut.injects) >= Len(fnPrev.injects)
         /\ \A p \in 1..Len(fnPrev.injects) :
              /\ fnOut.injects[p].id = fnPrev.injects[p].id
              /\ AbsentFromBatch(p)
                   => SameButStamp(fnOut.injects[p], fnPrev.injects[p])
    ELSE /\ Len(fnOut.injects) = Len(fnIn)
         /\ \A i \in 1..Len(fnIn) :
              fnOut.injects[i] = [fnIn[i] EXCEPT !.lastModified = fnOut.timestamp]
         /\ \A p \in 1..Len(fnPrev.injects) :
              AbsentFromBatch(p) =>
                \A q \in 1..Len(fnOut.injects) :
                  ~SameButStamp(fnOut.injects[q], fnPrev.injects[p])

\* a batch as long as the existing list was merged, and an existing inject
\* that the batch does not address is gone
C16_Witness ==
  /\ MergeOnDoc
  /\ Len(fnPrev.injects) >= 2
  /\ Len(fnIn) = Len(fnPrev.injects)
  /\ \E p \in 1..Len(fnPrev.injects) :
       /\ AbsentFromBatch(p)
       /\ fnPrev.injects[p].id # NoId
       /\ \A q \in 1..Len(fnOut.injects) :
            fnOut.injects[q].id # fnPrev.injects[p].id

\* the merged list as the incoming injects before the k-th left it (the
\* identifiers minted on the way are fresh ones, which no inject carries)
MergedBefore(k) ==
  MergeLoop(fnPrev.injects, SubSeq(fnIn, 1, k - 1), 1, fnPrev.melId,
            nextUuid, fnOut.timestamp).merged

\* the k-th incoming inject matches no entry of the merged list
MatchesNothing(k) ==
  \A p \in 1..Len(MergedBefore(k)) :
    /\ MergedBefore(k)[p].id # fnIn[k].id
    /\ MergedBefore(k)[p].Number # fnIn[k].Number

\* no later inject of the batch has the Number of the k-th, or the
\* identifier of the entry at position pos
NotAddressedLater(k, pos) ==
  \A j \in (k + 1)..Len(fnIn) :
    /\ fnIn[j].Number # fnIn[k].Number
    /\ fnIn[j].id # fnOut.injects[pos].id

\* C17: in a partial merge, an incoming inject that matches no entry of the
\* merged list is appended at the end of it with the existing document's
\* melId, keeping its own identifier if it has one and receiving a fresh
\* one otherwise (and its author fields, unless a later inject of the batch
\* addresses the new entry); the entries already in the list keep their
\* positions.
C17_Append ==
  PartialMerge =>
    \A k \in 1..Len(fnIn) :
      MatchesNothing(k) =>
        LET pos == Len(MergedBefore(k)) + 1
        IN /\ pos <= Len(fnOut.injects)
           /\ pos > Len(fnPrev.injects)
           /\ fnOut.injects[pos].melId = fnPrev.melId
           /\ IF fnIn[k].id # NoId
              THEN fnOut.injects[pos].id = fnIn[k].id
              ELSE /\ fnOut.injects[pos].id # NoId
                   /\ \A q \in 1..Len(fnOut.injects) :
                        q # pos => fnOut.injects[q].id # fnOut.injects[pos].id
           /\ NotAddressedLater(k, pos) =>
                /\ fnOut.injects[pos].Number = fnIn[k].Number
                /\ fnOut.injects[pos].Serial = fnIn[k].Serial
                /\ fnOut.injects[pos].Message = fnIn[k].Message
           /\ \A p \in 1..Len(fnPrev.injects) :
                fnOut.injects[p].id = fnPrev.injects[p].id

\* a batch of two was merged into a list of three: one inject rewrote an
\* entry, the other matched nothing and was appended with a fresh identifier
C17_Witness ==
  /\ PartialMerge
  /\ Len(fnIn) = 2
  /\ Len(fnOut.injects) = Len(fnPrev.injects) + 1
  /\ \E k \in 1..Len(fnIn) :
       /\ MatchesNothing(k)
       /\ fnIn[k].id = NoId
       /\ fnIn[k].melId # fnPrev.melId
       /\ fnOut.injects[Len(fnOut.injects)].id # NoId
       /\ fnOut.injects[Len(fnOut.injects)].Number = fnIn[k].Number

\* the first position of injects holding the Serial name
FirstPos(injects, name) ==
  CHOOSE i \in 1..Len(injects) :
    /\ injects[i].Serial = name
    /\ \A j \in 1..(i - 1) : injects[j].Serial # name

\* C18: the events of a document (extractEventsFromInjects of its injects)
\* are one per distinct Serial value, ordered by first occurrence in the
\* inject list, each with injectCount equal to the number of injects having
\* that Serial; an empty inject list yields an empty event list.
C18_Events ==
  fnOp # "none" =>
    /\ Len(fnOut.events) = Cardinality(SerialsOf(fnOut.injects))
    /\ {fnOut.events[k].name : k \in 1..Len(fnOut.events)} = SerialsOf(fnOut.injects)
    /\ \A k \in 1..Len(fnOut.events) :
         fnOut.events[k].injectCount =
           Cardinality({i \in 1..Len(fnOut.injects) :
                          fnOut.injects[i].Serial = fnOut.events[k].name})
    /\ \A k, l \in 1..Len(fnOut.events) :
         k < l => FirstPos(fnOut.injects, fnOut.events[k].name)
                    < FirstPos(fnOut.injects, fnOut.events[l].name)
    /\ fnOut.injects = <<>> => fnOut.events = <<>>

\* a list with Serial values B, A, B gave the events B (2 injects) and A (1)
C18_Witness ==
  /\ fnOp # "none"
  /\ Len(fnOut.injects) = 3
  /\ fnOut.injects[1].Serial = "B"
  /\ fnOut.injects[2].Serial = "A"
  /\ fnOut.injects[3].Serial = "B"
  /\ Len(fnOut.events) = 2
  /\ fnOut.events[1].name = "B"
  /\ fnOut.events[1].injectCount = 2

\* C19: in every document produced by build, partial merge, replacement or
\* user edit, each inject's melId equals the melId of the document that
\* contains it.
C19_Claim ==
  fnOp # "none" =>
    \A i \in 1..Len(fnOut.injects) : fnOut.injects[i].melId = fnOut.melId

(***************************************************************************)
(* Claims about the interpretation of the upstream response, checked under *)
(* Spec.                                                                   *)
(***************************************************************************)
\* the last request handled was a chat turn that changed the document
ChatUpdate ==
  /\ Changed
  /\ lastCall.op = "POST"

\* the response carries a structured field with a list-valued updatedInjects
HasStructuredInjects(responseData) ==
  /\ responseData.parsed.present
  /\ responseData.parsed.isArray

\* the document stored holds the last inject of the batch applied
LastApplied(sid) ==
  Len(lastCall.incoming) >= 1 =>
    \E q \in 1..Len(CurrentMelOf(sid).injects) :
      /\ CurrentMelOf(sid).injects[q].Number = Last(lastCall.incoming).Number
      /\ CurrentMelOf(sid).injects[q].Serial = Last(lastCall.incoming).Serial
      /\ CurrentMelOf(sid).injects[q].Message = Last(lastCall.incoming).Message

\* C20: when the upstream response carries a structured field with a
\* list-valued updatedInjects, the injects and the action used for the
\* update are those of the structured field (action 'merge' if it names
\* none), whether or not the free text holds a JSON array; the free-text
\* array is used only when there is no such structured field, with action
\* 'merge'.
C20_StructuredFirst ==
  ChatUpdate =>
    /\ IF HasStructuredInjects(lastCall.response)
       THEN /\ lastCall.incoming = lastCall.response.parsed.updatedInjects
            /\ lastCall.action =
                 IF lastCall.response.parsed.action # ""
                 THEN lastCall.response.parsed.action ELSE "merge"
       ELSE /\ lastCall.response.content.json.kind = "array"
            /\ lastCall.incoming = lastCall.response.content.json.val
            /\ lastCall.action = "merge"
    /\ LastApplied(lastCall.sessionId)

\* a response with a JSON array in its text and a different list in its
\* structured field, action 'replace', was applied
C20_Witness ==
  /\ ChatUpdate
  /\ HasStructuredInjects(lastCall.response)
  /\ lastCall.response.content.json.kind = "array"
  /\ lastCall.response.content.json.val # lastCall.response.parsed.updatedInjects
  /\ lastCall.response.parsed.action = "replace"
  /\ lastCall.action = "replace"
  /\ Len(lastCall.incoming) = 1
  /\ CurrentMelOf(lastCall.sessionId).injects[1].Number = lastCall.incoming[1].Number

(***************************************************************************)
(* Further claims about the documents of the builder, the replacement and  *)
(* the merge engine, checked under SpecMerge.                              *)
(***************************************************************************)
\* the sum of the injectCount values of a list of events
RECURSIVE SumInjectCounts(_)
SumInjectCounts(events) ==
  IF events = <<>> THEN 0
  ELSE events[1].injectCount + SumInjectCounts(Tail(events))

\* C25: every document returned by createMelVersion, updateMelVersion or
\* mergeMelUpdates has totalInjects equal to the length of its inject list,
\* and the injectCount values of its events sum to that length.
C25_Counts ==
  fnOp # "none" =>
    /\ fnOut.totalInjects = Len(fnOut.injects)
    /\ SumInjectCounts(fnOut.events) = Len(fnOut.injects)

\* a merge returned a list longer than the one it was given and than the
\* one it started from, with injects under two events
C25_Witness ==
  /\ PartialMerge
  /\ Len(fnOut.injects) > Len(fnPrev.injects)
  /\ Len(fnOut.events) = 2
  /\ fnOut.totalInjects = Len(fnPrev.injects) + 1

\* the incoming injects that matched no entry of the merged list when they
\* were processed
Unmatched == {k \in 1..Len(fnIn) : MatchesNothing(k)}

\* C28: a partial merge never returns fewer injects than the existing
\* document had: the length of the result is the existing length plus the
\* number of incoming injects that matched no entry of the merged list at
\* the moment they were processed (an entry appended earlier in the batch
\* is an entry a later incoming inject can match).
C28_Length ==
  PartialMerge =>
    /\ Len(fnOut.injects) >= Len(fnPrev.injects)
    /\ Len(fnOut.injects) = Len(fnPrev.injects) + Cardinality(Unmatched)

\* two incoming injects with a Number no existing entry has: the first was
\* appended, the second matched the appended entry
C28_Witness ==
  /\ PartialMerge
  /\ Len(fnIn) = 2
  /\ \A k \in 1..2 : \A p \in 1..Len(fnPrev.injects) :
       /\ fnPrev.injects[p].Number # fnIn[k].Number
       /\ fnPrev.injects[p].id # fnIn[k].id
  /\ Unmatched = {1}
  /\ Len(fnOut.injects) = Len(fnPrev.injects) + 1

(***************************************************************************)
(* Claims about documents reached by longer sequences of operations,       *)
(* checked under SpecChain.                                                *)
(***************************************************************************)
\* the last operation was a partial merge of a batch whose injects carry no
\* identifier
AnonymousPartialMerge ==
  /\ PartialMerge
  /\ \A k \in 1..Len(fnIn) : fnIn[k].id = NoId

\* C26: in a partial merge, an incoming inject that carries no identifier
\* is matched to an existing entry only when their Number values are equal:
\* after merging a batch of such injects every existing position still has
\* its Number, in any document reachable by builds, replacements, user
\* edits and merges.
C26_Claim ==
  AnonymousPartialMerge =>
    \A p \in 1..Len(fnPrev.injects) :
      fnOut.injects[p].Number = fnPrev.injects[p].Number

(***************************************************************************)
(* Claims about the chat handler's failure paths and about the sessions'   *)
(* documents, checked under Spec.                                          *)
(***************************************************************************)
\* the step ends a chat turn of session sid whose upstream response was a
\* success carrying no inject list: no structured list, and in the free
\* text no JSON, JSON that fails to parse, or JSON that is no array
NoListTurnEnd(sid) ==
  /\ Len(inflight') < Len(inflight)
  /\ lastCall'.op = "POST"
  /\ lastCall'.sessionId = sid
  /\ lastCall'.response.ok
  /\ ~HasStructuredInjects(lastCall'.response)
  /\ lastCall'.response.content.json.kind # "array"

\* the step is the arrival of a chat request with an API key on session sid
TurnArrival(sid) ==
  /\ Len(inflight') > Len(inflight)
  /\ Last(inflight').sessionId = sid

\* C21 as stated: a chat turn whose response yields no inject list succeeds
\* and leaves the session's version history and current document as they
\* were before the request: its answer changes neither, and the document
\* is then (no other request having written it meanwhile, i.e. it still is
\* the one the turn captured) the one the session had when the request
\* arrived.
C21_Original ==
  [][\A sid \in SessionIds :
       NoListTurnEnd(sid) =>
         /\ lastCall'.status = 200
         /\ HistoryOf(sid)' = HistoryOf(sid)
         /\ CurrentMelOf(sid)' = CurrentMelOf(sid)
         /\ CurrentMelOf(sid) = lastCall'.existingMel
              => CurrentMelOf(sid)' = lastCall'.priorMel]_vars

\* C21 amended: a chat turn whose response yields no inject list succeeds
\* and appends nothing to the version history; its answer leaves the
\* current document as it was, but on arrival the request has replaced the
\* current document by the currentMelData it carried, if it carried one.
C21_Amended ==
  [][\A sid \in SessionIds :
       /\ NoListTurnEnd(sid) =>
            /\ lastCall'.status = 200
            /\ HistoryOf(sid)' = HistoryOf(sid)
            /\ CurrentMelOf(sid)' = CurrentMelOf(sid)
       /\ TurnArrival(sid) =>
            /\ HistoryOf(sid)' = HistoryOf(sid)
            /\ Last(inflight').priorMel = CurrentMelOf(sid)
            /\ CurrentMelOf(sid)' = Last(inflight').existingMel
            /\ \/ Last(inflight').existingMel = CurrentMelOf(sid)
               \/ Last(inflight').existingMel # NoMel]_vars

\* a chat turn on a session with a document and two history entries ended
\* with a reply whose JSON failed to parse
C21_Witness ==
  /\ lastCall.op = "POST"
  /\ lastCall.status = 200
  /\ ~lastCall.isArray
  /\ lastCall.response.content.json.kind = "bad"
  /\ Len(HistoryOf(lastCall.sessionId)) = 2
  /\ CurrentMelOf(lastCall.sessionId) = lastCall.existingMel
  /\ CurrentMelOf(lastCall.sessionId) # lastCall.priorMel

\* C22: a chat request with no API key from the caller and none in the
\* environment is answered 400 before any upstream call is made (nothing
\* is added to the calls in flight), and creates or changes no session.
C22_NoKey ==
  [][(lastCall'.op = "POST" /\ ~lastCall'.hasKey) =>
       /\ lastCall'.status = 400
       /\ inflight' = inflight
       /\ sessions' = sessions]_vars

\* a chat request without a key was rejected, and no session exists under
\* its identifier
C22_Witness ==
  /\ lastCall.op = "POST"
  /\ ~lastCall.hasKey
  /\ lastCall.status = 400
  /\ lastCall.sessionId \in SessionIds
  /\ sessions[lastCall.sessionId] = NoSession
  /\ inflight = <<>>

\* C27: after any sequence of accepted chat turns and user edits on a
\* session, every inject of the session's current document has an
\* identifier.
C27_Claim ==
  \A sid \in SessionIds :
    \A i \in 1..Len(CurrentMelOf(sid).injects) :
      CurrentMelOf(sid).injects[i].id # NoId

\* the step ends a chat turn of session sid whose upstream call returned a
\* non-success status
UpstreamFailure(sid) ==
  /\ Len(inflight') < Len(inflight)
  /\ lastCall'.sessionId = sid
  /\ ~lastCall'.response.ok

\* C30: a chat turn whose upstream call returns a non-success status is
\* answered with that status, appends nothing to the session's version
\* history and leaves the session's stored messages unchanged.
C30_UpstreamFailure ==
  [][\A sid \in SessionIds :
       UpstreamFailure(sid) =>
         /\ lastCall'.op = "POST"
         /\ lastCall'.status = lastCall'.response.status
         /\ lastCall'.status \in UpstreamStatuses
         /\ HistoryOf(sid)' = HistoryOf(sid)
         /\ MessagesOf(sid)' = MessagesOf(sid)]_vars

\* a chat turn failed upstream with 429 on a session that holds the
\* messages and the document of an earlier turn
C30_Witness ==
  /\ lastCall.op = "POST"
  /\ ~lastCall.response.ok
  /\ lastCall.status = 429
  /\ lastCall.response.status = 429
  /\ Len(MessagesOf(lastCall.sessionId)) = 2
  /\ Len(HistoryOf(lastCall.sessionId)) = 1

(***************************************************************************)
(* Claims about interleaved requests, checked under SpecRace.              *)
(***************************************************************************)
\* the step ends, with an inject list, a chat turn of session sid whose
\* captured document is no longer the session's: another request has
\* written the session's document while the turn awaited the upstream call
RacedEnd(sid) ==
  /\ Len(inflight') < Len(inflight)
  /\ lastCall'.sessionId = sid
  /\ lastCall'.status = 200
  /\ lastCall'.isArray
  /\ CurrentMelOf(sid) # lastCall'.existingMel

\* the step is a user edit accepted on session sid while a chat turn of the
\* session awaits the upstream call
EditDuringTurn(sid) ==
  /\ lastCall' # lastCall
  /\ lastCall'.op = "PUT"
  /\ lastCall'.status = 200
  /\ lastCall'.sessionId = sid
  /\ \E i \in 1..Len(inflight) : inflight[i].sessionId = sid

\* C23: when two requests on a session interleave, the current document
\* after both is the result written last, computed from the document that
\* request captured before its await (for a user edit, the document it
\* found): the chat turn that ends after another request wrote the
\* document stores the update of its captured document, not of the one in
\* the session; the history gets the new result after the other one's; a
\* user edit leaves the awaiting turns' captured documents as they are.
C23_LastWriteWins ==
  [][\A sid \in SessionIds :
       /\ RacedEnd(sid) =>
            /\ CurrentMelOf(sid)' =
                 PostMelData(lastCall'.existingMel, lastCall'.incoming,
                             lastCall'.action, nextUuid, now)
            /\ CurrentMelOf(sid)'.version =
                 IF Len(lastCall'.existingMel.injects) > 0
                 THEN lastCall'.existingMel.version + 1 ELSE 1
            /\ Len(HistoryOf(sid)') = Len(HistoryOf(sid)) + 1
            /\ SubSeq(HistoryOf(sid)', 1, Len(HistoryOf(sid))) = HistoryOf(sid)
            /\ MelOf(Last(HistoryOf(sid)')) = CurrentMelOf(sid)'
       /\ EditDuringTurn(sid) =>
            /\ CurrentMelOf(sid)' =
                 updateMelVersion(CurrentMelOf(sid), lastCall'.incoming, nextUuid, now)
            /\ inflight' = inflight]_vars

\* two chat turns captured the same document, the second arriving before
\* the first one ended (the session's document it found was not yet the
\* first one's result); both results are in the history with the same
\* melId and version, and the current document is the second, without the
\* inject the first one wrote
C23_Witness ==
  /\ inflight = <<>>
  /\ lastCall.op = "POST"
  /\ lastCall.status = 200
  /\ lastCall.isArray
  /\ Len(lastCall.existingMel.injects) = 1
  /\ Len(HistoryOf(lastCall.sessionId)) = 2
  /\ lastCall.priorMel # MelOf(HistoryOf(lastCall.sessionId)[1])
  /\ lastCall.priorMel.version <= lastCall.existingMel.version
  /\ HistoryOf(lastCall.sessionId)[1].source # "user_edit"
  /\ HistoryOf(lastCall.sessionId)[1].melId = lastCall.existingMel.melId
  /\ HistoryOf(lastCall.sessionId)[1].version = lastCall.existingMel.version + 1
  /\ HistoryOf(lastCall.sessionId)[2].version = lastCall.existingMel.version + 1
  /\ HistoryOf(lastCall.sessionId)[1].injects[1].Number
       # CurrentMelOf(lastCall.sessionId).injects[1].Number
  /\ MelOf(HistoryOf(lastCall.sessionId)[2]) = CurrentMelOf(lastCall.sessionId)

(***************************************************************************)
(* The sessions endpoint as a key-value store, checked under SpecSessions. *)
(***************************************************************************)
\* a step that handled a request to the sessions endpoint
SavedStep == savedCall' # savedCall \/ saved' # saved

\* every entry but the one under sessionId is left as it was
OthersKept(sessionId) ==
  \A id \in SavedIds \ {sessionId} : saved'[id] = saved[id]

\* C24: in the sessions endpoint a GET with an identifier returns the session
\* stored under it, which is the one the last POST saved, and answers 404 when
\* there is none, as after a DELETE; a POST with an identifier stores the
\* messages and the exercise of the request in place of the stored ones and
\* keeps the createdAt of the entry it replaces; a DELETE with an identifier
\* removes the entry; a POST or a DELETE without an identifier is answered 400
\* and leaves the map as it was.
C24_KeyValue ==
  [][SavedStep =>
       LET call == savedCall'
           sid == call.sessionId
       IN /\ (call.op = "GET" /\ sid # NoSid) =>
               /\ saved' = saved
               /\ saved[sid].exists =>
                    call.status = 200 /\ call.session = saved[sid]
               /\ ~saved[sid].exists => call.status = 404
          /\ (call.op = "POST" /\ sid # NoSid) =>
               /\ call.status = 200
               /\ saved'[sid].exists
               /\ saved'[sid].messages = call.messages
               /\ saved'[sid].exercise = call.exercise
               /\ saved[sid].exists => saved'[sid].createdAt = saved[sid].createdAt
               /\ call.session = saved'[sid]
               /\ OthersKept(sid)
          /\ (call.op = "DELETE" /\ sid # NoSid) =>
               /\ call.status = 200
               /\ ~saved'[sid].exists
               /\ OthersKept(sid)
          /\ (call.op \in {"POST", "DELETE"} /\ sid = NoSid) =>
               call.status = 400 /\ saved' = saved]_vars

\* a POST replaced a session saved at an earlier time by one with no
\* messages and another exercise, while another session is stored
C24_Witness ==
  /\ savedCall.op = "POST"
  /\ savedCall.status = 200
  /\ savedCall.sessionId = "s1"
  /\ saved["s1"] = savedCall.session
  /\ saved["s1"].createdAt < saved["s1"].lastActivity
  /\ saved["s1"].messages = <<>>
  /\ saved["s1"].exercise = "e2"
  /\ saved["s2"].exists

(***************************************************************************)
(* One chat request at a time in the ChatUI component, checked under       *)
(* SpecChatUI.                                                             *)
(***************************************************************************)
\* C29: the ChatUI component has at most one chat request in flight, and
\* isLoading is true exactly while it has one: sendMessage issues no request
\* while isLoading is true, and the end of the request, with an answer or with
\* an error, sets isLoading back to false.
C29_OneAtATime ==
  /\ Len(ui.requests) <= 1
  /\ ui.isLoading <=> Len(ui.requests) = 1

\* a request is in flight that was sent after an earlier request was
\* answered and another one failed
C29_Witness ==
  /\ ui.isLoading
  /\ Len(ui.requests) = 1
  /\ Len(ui.messages) = 5
  /\ ui.messages[2].content = "reply"
  /\ ui.messages[4].content = UiErrorText
  /\ ui.messages[5].role = "user"

====
